---- MODULE Spec2Model ----
(***************************************************************************)
(* Model of the custom-resource Lambda of cdk-ssm-document                 *)
(* (src/lambda/index.ts): the handler dispatching Create / Update / Delete *)
(* events, the four-step Update promise chain with its self-heal catch,    *)
(* the module-scoped latestVersion variable, and the tag helpers.          *)
(*                                                                         *)
(* One Lambda process handles one invocation at a time; module-scoped      *)
(* state (latestVersion) survives from one invocation to the next.         *)
(* The remote service (AWS SSM) is the environment: every call it receives *)
(* is answered with success or with an error carrying a code.              *)
(***************************************************************************)
EXTENDS Integers, Sequences, FiniteSets, TLC

(***************************************************************************)
(* Bounds of the model.                                                    *)
(***************************************************************************)
\* at most this many user tags in a Tags mapping of an event
MaxUserTags == 1

(***************************************************************************)
(* JavaScript values.  undefined is the string marker Undefined; it is     *)
(* falsy, like the empty string.                                           *)
(***************************************************************************)
Undefined == "<undefined>"

Falsy(v) == v \in {Undefined, ""}

\* a || b on strings
Or(a, b) == IF Falsy(a) THEN b ELSE a

\* properties.X: undefined when the key is absent
Get(properties, key) ==
    IF key \in DOMAIN properties THEN properties[key] ELSE Undefined

\* mutant: no default target type
defaultTargetTypeNone == ""

\* const defaultTargetType = '/'
defaultTargetType == "/"

(***************************************************************************)
(* The inputs: events as CloudFormation delivers them.                     *)
(***************************************************************************)
Names == {"doc1"}
DocumentTypes == {"Automation"}
StackIds == {"stack-id-1"}
StackNames == {"stack1"}
LogicalIds == {"Doc"}

\* A Content object: schemaVersion and an optional parameters mapping, a
\* sequence of entries in key order.  CloudFormation delivers a Boolean
\* default as the string "true" / "false"; [t |-> "boolean"] values are
\* produced by fixBooleanParameters only.
StrVal(s) == [t |-> "string", v |-> s]
BoolVal(b) == [t |-> "boolean", v |-> IF b THEN "true" ELSE "false"]

PlainContent == [schemaVersion |-> "1.0"]
BoolParamContent ==
    [schemaVersion |-> "1.0",
     parameters |-> << [key |-> "Flag", type |-> "Boolean",
                        default |-> StrVal("true")] >>]
Contents == {PlainContent, BoolParamContent}

\* The target type of a property set: absent, or given under the key
\* TargetType (the key Create reads, line 47) or under the key targetType
\* (the key updateDocument reads, lines 92, 93 and 104).
TargetTypeOptions ==
    { [key |-> "TargetType", value |-> Undefined],
      [key |-> "TargetType", value |-> "/AWS::EC2::Instance"],
      [key |-> "targetType", value |-> "/"],
      [key |-> "targetType", value |-> "/AWS::EC2::Instance"] }

UpdateDefaultVersionValues == {"true", "TRUE", "false"}

\* the user tags an event may carry
TagEntries ==
    { [Key |-> "x", Value |-> "1"], [Key |-> "x", Value |-> "2"],
      [Key |-> "y", Value |-> "1"] }

\* A Tags mapping, as the sequence of its entries in Object.keys order
\* (insertion order; keys are unique).
RECURSIVE TagMapsOfLen(_)
TagMapsOfLen(n) ==
    IF n = 0 THEN {<< >>}
    ELSE { Append(m, e) : m \in TagMapsOfLen(n - 1), e \in TagEntries }

KeysOf(tags) == { tags[i].Key : i \in 1..Len(tags) }

UniqueKeys(tags) == Cardinality(KeysOf(tags)) = Len(tags)

TagMaps ==
    UNION { { m \in TagMapsOfLen(n) : UniqueKeys(m) } : n \in 0..MaxUserTags }

\* the Tags property: absent, or a mapping
TagsOptions ==
    {[has |-> FALSE, map |-> << >>]} \cup {[has |-> TRUE, map |-> m] : m \in TagMaps}

\* a property set with one more key; a key whose value is undefined is absent
WithKey(properties, key, value) ==
    IF value = Undefined THEN properties ELSE properties @@ (key :> value)

WithTags(properties, tagsOption) ==
    IF tagsOption.has THEN properties @@ ("Tags" :> tagsOption.map) ELSE properties

\* ResourceProperties as delivered
PropertySets ==
    { WithTags(
        WithKey([Name |-> n, Content |-> c, DocumentType |-> d,
                 StackName |-> s, UpdateDefaultVersion |-> u],
                tt.key, tt.value),
        tg) :
        n \in Names, c \in Contents, d \in DocumentTypes, s \in StackNames,
        u \in UpdateDefaultVersionValues, tt \in TargetTypeOptions,
        tg \in TagsOptions }

\* OldResourceProperties as delivered; no code reads their
\* UpdateDefaultVersion, which is left at "false"
OldPropertySets == { p \in PropertySets : p.UpdateDefaultVersion = "false" }

\* the events: Create and Delete carry ResourceProperties alone, Update
\* carries OldResourceProperties too
Events ==
    { [RequestType |-> r, StackId |-> sid, LogicalResourceId |-> lid,
       ResourceProperties |-> p] :
        r \in {"Create", "Delete"}, sid \in StackIds, lid \in LogicalIds,
        p \in PropertySets }
    \cup
    { [RequestType |-> "Update", StackId |-> sid, LogicalResourceId |-> lid,
       ResourceProperties |-> p, OldResourceProperties |-> o] :
        sid \in StackIds, lid \in LogicalIds,
        p \in PropertySets, o \in OldPropertySets }

(***************************************************************************)
(* The remote service's answers.                                           *)
(***************************************************************************)
ErrorCodes ==
    {"InvalidResourceId", "InvalidDocument", "DuplicateDocumentContent",
     "AccessDeniedException"}

\* data.DocumentDescription.LatestVersion of a successful updateDocument
VersionIds == {"2", "3"}

Ok == [code |-> "ok", LatestVersion |-> Undefined]
Failure(code) == [code |-> code, LatestVersion |-> Undefined]

\* what the service may answer to a call of operation op
Answers(op) ==
    { Failure(c) : c \in ErrorCodes }
    \cup (IF op = "updateDocument"
          THEN { [code |-> "ok", LatestVersion |-> v] : v \in VersionIds }
          ELSE { Ok })

(***************************************************************************)
(* Pure helpers of the source.                                             *)
(***************************************************************************)
\* JSON.stringify: the serialisation keeps the order of members and of list
\* elements and the type of every value (a string "true" is written with
\* quotes, a boolean true without), so it is the ordered, typed structure.
JSONStringify(value) == [json |-> value]

\* mutant: the flag compared without toLowerCase()
ToLowerCaseIdentity(str) == str

\* String.prototype.toLowerCase on the strings of the model
ToLowerCase(str) ==
    CASE str = "TRUE" -> "true"
      [] str = "True" -> "true"
      [] str = "FALSE" -> "false"
      [] OTHER -> str

\* fixBooleanParameters: one parameter
FixParam(param) ==
    IF param.type = "Boolean" /\ "default" \in DOMAIN param
    THEN [param EXCEPT !.default = BoolVal(param.default = StrVal("true"))]
    ELSE param

fixBooleanParameters(ev) ==
    LET content == ev.ResourceProperties.Content IN
    IF "parameters" \notin DOMAIN content
    THEN ev
    ELSE [ev EXCEPT !.ResourceProperties.Content.parameters =
              [i \in DOMAIN content.parameters |-> FixParam(content.parameters[i])]]

SystemTags(ev, properties) ==
    << [Key |-> "aws-cloudformation:stack-id", Value |-> ev.StackId],
       [Key |-> "aws-cloudformation:stack-name", Value |-> properties.StackName],
       [Key |-> "aws-cloudformation:logical-id", Value |-> ev.LogicalResourceId] >>

\* mutant: the system tags pushed only together with user tags
makeTagsOnlyWithUserTags(ev, properties) ==
    IF "Tags" \in DOMAIN properties
    THEN SystemTags(ev, properties) \o properties.Tags
    ELSE << >>

makeTags(ev, properties) ==
    SystemTags(ev, properties)
    \o (IF "Tags" \in DOMAIN properties THEN properties.Tags ELSE << >>)

\* mutant: a tag counts as present only with the same value
missingTagsByEntry(newTags, currentTag) ==
    Len(SelectSeq(newTags, LAMBDA newTag : newTag = currentTag)) = 0

missingTags(newTags, currentTag) ==
    Len(SelectSeq(newTags, LAMBDA newTag : newTag.Key = currentTag.Key)) = 0

\* mutant: the two lists taken in the other order
getMissingTagsSwapped(oldTags, newTags) ==
    LET missing == SelectSeq(newTags, LAMBDA tag : missingTags(oldTags, tag))
    IN  [i \in 1..Len(missing) |-> missing[i].Key]

getMissingTags(oldTags, newTags) ==
    LET missing == SelectSeq(oldTags, LAMBDA tag : missingTags(newTags, tag))
    IN  [i \in 1..Len(missing) |-> missing[i].Key]

(***************************************************************************)
(* The state.                                                              *)
(***************************************************************************)
VARIABLES
    event,          \* the event of the invocation being handled
    pc,             \* where the invocation's promise chain stands
    latestVersion,  \* var latestVersion (module scope, line 22)
    calls,          \* the remote calls this invocation has issued, in order
    replies,        \* the answers received so far, replies[i] to calls[i]
    err,            \* the rejection reason travelling down Update's chain
    response,       \* the response values set by event.addResponseValue
    result          \* how the handler's promise settled

vars == <<event, pc, latestVersion, calls, replies, err, response, result>>

NoEvent == [RequestType |-> "None"]
Pending == [status |-> "pending", error |-> Undefined]
Resolved == [status |-> "resolved", error |-> Undefined]
Rejected(code) == [status |-> "rejected", error |-> code]

Init ==
    /\ event = NoEvent
    /\ pc = "idle"
    /\ latestVersion = Undefined
    /\ calls = << >>
    /\ replies = << >>
    /\ err = Undefined
    /\ response = [Name |-> Undefined]
    /\ result = Pending

\* a remote call is outstanding
Outstanding == Len(calls) - Len(replies)

Issue(call) == calls' = Append(calls, call)
Receive(answer) == replies' = Append(replies, answer)

(***************************************************************************)
(* handler (lines 24-35): a new invocation starts when the process is free *)
(***************************************************************************)
Dispatch(requestType) ==
    CASE requestType = "Create" -> "Create"
      [] requestType = "Update" -> "updateDocument"
      [] requestType = "Delete" -> "Delete"

handler(ev) ==
    /\ event' = fixBooleanParameters(ev)
    /\ pc' = Dispatch(ev.RequestType)
    /\ calls' = << >>
    /\ replies' = << >>
    /\ err' = Undefined
    /\ response' = [Name |-> Undefined]
    /\ result' = Pending
    /\ UNCHANGED latestVersion

\* the platform delivers the next event to the free process
Invoke ==
    /\ pc = "idle"
    /\ \E ev \in Events : handler(ev)

(***************************************************************************)
(* Create (lines 37-60)                                                    *)
(***************************************************************************)
\* mutant: the target type sent without the default substituted
CreateRequestNoDefault(ev) ==
    [op |-> "createDocument",
     Name |-> ev.ResourceProperties.Name,
     Content |-> JSONStringify(ev.ResourceProperties.Content),
     DocumentType |-> ev.ResourceProperties.DocumentType,
     TargetType |-> Get(ev.ResourceProperties, "TargetType"),
     Tags |-> makeTags(ev, ev.ResourceProperties)]

CreateRequest(ev) ==
    [op |-> "createDocument",
     Name |-> ev.ResourceProperties.Name,
     Content |-> JSONStringify(ev.ResourceProperties.Content),
     DocumentType |-> ev.ResourceProperties.DocumentType,
     TargetType |-> Or(Get(ev.ResourceProperties, "TargetType"), defaultTargetType),
     Tags |-> makeTags(ev, ev.ResourceProperties)]

Create ==
    /\ pc = "Create"
    /\ Issue(CreateRequest(event))
    /\ pc' = "Create_cb"
    /\ UNCHANGED <<event, latestVersion, replies, err, response, result>>

\* mutant: Create chained before Update's catch, so that its rejection is
\* caught like a step's
CreateCallbackCaught(answer) ==
    /\ pc = "Create_cb"
    /\ Receive(answer)
    /\ IF answer.code # "ok"
       THEN /\ IF event.RequestType = "Update"
               THEN pc' = "Update_catch" /\ err' = answer.code /\ UNCHANGED result
               ELSE pc' = "done" /\ result' = Rejected(answer.code) /\ UNCHANGED err
            /\ UNCHANGED response
       ELSE /\ response' = [response EXCEPT !.Name = event.ResourceProperties.Name]
            /\ result' = Resolved
            /\ pc' = "done"
            /\ UNCHANGED err
    /\ UNCHANGED <<event, latestVersion, calls>>

CreateCallback(answer) ==
    /\ pc = "Create_cb"
    /\ Receive(answer)
    /\ IF answer.code # "ok"
       THEN /\ result' = Rejected(answer.code)
            /\ UNCHANGED response
       ELSE /\ response' = [response EXCEPT !.Name = event.ResourceProperties.Name]
            /\ result' = Resolved
    /\ pc' = "done"
    /\ UNCHANGED <<event, latestVersion, calls, err>>

(***************************************************************************)
(* Delete (lines 224-239)                                                  *)
(***************************************************************************)
DeleteRequest(ev) ==
    [op |-> "deleteDocument", Name |-> ev.ResourceProperties.Name]

Delete ==
    /\ pc = "Delete"
    /\ Issue(DeleteRequest(event))
    /\ pc' = "Delete_cb"
    /\ UNCHANGED <<event, latestVersion, replies, err, response, result>>

\* mutant: a not-found answer taken for "already deleted" and resolved
SettleNotFoundAsDone(answer) ==
    IF answer.code \notin {"ok", "InvalidDocument", "InvalidResourceId"}
    THEN Rejected(answer.code) ELSE Resolved

\* function (err, data) { if (err) reject(err); else resolve(event); }
Settle(answer) ==
    IF answer.code # "ok" THEN Rejected(answer.code) ELSE Resolved

DeleteCallback(answer) ==
    /\ pc = "Delete_cb"
    /\ Receive(answer)
    /\ result' = Settle(answer)
    /\ pc' = "done"
    /\ UNCHANGED <<event, latestVersion, calls, err, response>>

(***************************************************************************)
(* Update (lines 62-82): the chain                                         *)
(*   updateDocument(event).then(updateDocumentAddTags)                     *)
(*     .then(updateDocumentRemoveTags).then(updateDocumentDefaultVersion)  *)
(*     .then(<resolve>).catch(<self-heal or reject>)                       *)
(***************************************************************************)
\* mutant: the two tag steps chained in the other order
ThenTagsSwapped(step) ==
    CASE step = "updateDocument" -> "updateDocumentRemoveTags"
      [] step = "updateDocumentRemoveTags" -> "updateDocumentAddTags"
      [] step = "updateDocumentAddTags" -> "updateDocumentDefaultVersion"
      [] step = "updateDocumentDefaultVersion" -> "Update_then"

\* the step that runs when the promise of `step` resolves
Then(step) ==
    CASE step = "updateDocument" -> "updateDocumentAddTags"
      [] step = "updateDocumentAddTags" -> "updateDocumentRemoveTags"
      [] step = "updateDocumentRemoveTags" -> "updateDocumentDefaultVersion"
      [] step = "updateDocumentDefaultVersion" -> "Update_then"

\* a step's promise resolves / rejects: control passes down the chain
Resolve(step) ==
    /\ pc' = Then(step)
    /\ UNCHANGED err

\* mutant: a failed step starts the pipeline again
RejectRetry(code) ==
    /\ pc' = "updateDocument"
    /\ err' = code

\* mutant: a callback that resolves where it should reject
RejectSwallowed(code) ==
    /\ pc' = "Update_then"
    /\ err' = code

Reject(code) ==
    /\ pc' = "Update_catch"
    /\ err' = code

\* the generic callback of the tag and default-version steps:
\*   function (err, data) { if (err) reject(err); else resolve(event); }
StepCallback(step, answer) ==
    /\ pc = step \o "_cb"
    /\ Receive(answer)
    /\ IF answer.code # "ok" THEN Reject(answer.code) ELSE Resolve(step)
    /\ UNCHANGED <<event, latestVersion, calls, response, result>>

(***************************************************************************)
(* updateDocument (lines 84-121)                                           *)
(***************************************************************************)
\* mutant: the target types compared without the default substituted
NoChangesDetectedNoDefault(ev) ==
    /\ JSONStringify(ev.ResourceProperties.Content)
         = JSONStringify(ev.OldResourceProperties.Content)
    /\ Get(ev.ResourceProperties, "targetType")
         = Get(ev.OldResourceProperties, "targetType")

\* the condition of the if at lines 89-94
NoChangesDetected(ev) ==
    /\ JSONStringify(ev.ResourceProperties.Content)
         = JSONStringify(ev.OldResourceProperties.Content)
    /\ Or(Get(ev.ResourceProperties, "targetType"), defaultTargetType)
         = Or(Get(ev.OldResourceProperties, "targetType"), defaultTargetType)

UpdateRequest(ev) ==
    [op |-> "updateDocument",
     Name |-> ev.ResourceProperties.Name,
     Content |-> JSONStringify(ev.ResourceProperties.Content),
     TargetType |-> Or(Get(ev.ResourceProperties, "targetType"), defaultTargetType),
     DocumentVersion |-> "$LATEST"]

updateDocument ==
    /\ pc = "updateDocument"
    /\ IF NoChangesDetected(event)
       THEN /\ Resolve("updateDocument")
            /\ UNCHANGED calls
       ELSE /\ Issue(UpdateRequest(event))
            /\ pc' = "updateDocument_cb"
            /\ UNCHANGED err
    /\ UNCHANGED <<event, latestVersion, replies, response, result>>

\* mutant: the callback without its DuplicateDocumentContent branch
BenignCodesNone == {}

\* the error codes the callback of lines 107-118 swallows
BenignCodes == {"DuplicateDocumentContent"}

updateDocumentCallback(answer) ==
    /\ pc = "updateDocument_cb"
    /\ Receive(answer)
    /\ IF answer.code # "ok" /\ answer.code \in BenignCodes
       THEN /\ Resolve("updateDocument")
            /\ UNCHANGED latestVersion
       ELSE IF answer.code # "ok"
       THEN /\ Reject(answer.code)
            /\ UNCHANGED latestVersion
       ELSE /\ latestVersion' = answer.LatestVersion
            /\ Resolve("updateDocument")
    /\ UNCHANGED <<event, calls, response, result>>

(***************************************************************************)
(* updateDocumentAddTags (lines 123-149)                                   *)
(***************************************************************************)
AddTagsRequest(ev) ==
    [op |-> "addTagsToResource",
     ResourceType |-> "Document",
     ResourceId |-> ev.ResourceProperties.Name,
     Tags |-> makeTags(ev, ev.ResourceProperties)]

\* the condition of the if at line 130
TagsUnchanged(ev) ==
    JSONStringify(makeTags(ev, ev.OldResourceProperties))
      = JSONStringify(makeTags(ev, ev.ResourceProperties))

updateDocumentAddTags ==
    /\ pc = "updateDocumentAddTags"
    /\ IF TagsUnchanged(event)
       THEN /\ Resolve("updateDocumentAddTags")
            /\ UNCHANGED calls
       ELSE /\ Issue(AddTagsRequest(event))
            /\ pc' = "updateDocumentAddTags_cb"
            /\ UNCHANGED err
    /\ UNCHANGED <<event, latestVersion, replies, response, result>>

(***************************************************************************)
(* updateDocumentRemoveTags (lines 151-184)                                *)
(***************************************************************************)
tagsToRemove(ev) ==
    getMissingTags(makeTags(ev, ev.OldResourceProperties),
                   makeTags(ev, ev.ResourceProperties))

RemoveTagsRequest(ev) ==
    [op |-> "removeTagsFromResource",
     ResourceId |-> ev.ResourceProperties.Name,
     ResourceType |-> "Document",
     TagKeys |-> tagsToRemove(ev)]

\* mutant: the if without its !tagsToRemove.length test
NothingToRemoveIfUnchanged(ev) == TagsUnchanged(ev)

\* the condition of the if at lines 159-162
NothingToRemove(ev) ==
    TagsUnchanged(ev) \/ Len(tagsToRemove(ev)) = 0

updateDocumentRemoveTags ==
    /\ pc = "updateDocumentRemoveTags"
    /\ IF NothingToRemove(event)
       THEN /\ Resolve("updateDocumentRemoveTags")
            /\ UNCHANGED calls
       ELSE /\ Issue(RemoveTagsRequest(event))
            /\ pc' = "updateDocumentRemoveTags_cb"
            /\ UNCHANGED err
    /\ UNCHANGED <<event, latestVersion, replies, response, result>>

(***************************************************************************)
(* updateDocumentDefaultVersion (lines 186-222)                            *)
(***************************************************************************)
\* the negation of the condition of the if at lines 191-194
DefaultVersionRequested(ev) ==
    ToLowerCase(ev.ResourceProperties.UpdateDefaultVersion) = "true"

DefaultVersionRequest(ev, version) ==
    [op |-> "updateDocumentDefaultVersion",
     Name |-> ev.ResourceProperties.Name,
     DocumentVersion |-> version]

updateDocumentDefaultVersion ==
    /\ pc = "updateDocumentDefaultVersion"
    /\ IF ~DefaultVersionRequested(event)
       THEN /\ Resolve("updateDocumentDefaultVersion")
            /\ UNCHANGED calls
       ELSE IF Falsy(latestVersion)
       THEN /\ Resolve("updateDocumentDefaultVersion")
            /\ UNCHANGED calls
       ELSE /\ Issue(DefaultVersionRequest(event, latestVersion))
            /\ pc' = "updateDocumentDefaultVersion_cb"
            /\ UNCHANGED err
    /\ UNCHANGED <<event, latestVersion, replies, response, result>>

(***************************************************************************)
(* Update's last then (lines 68-71) and its catch (lines 72-80)            *)
(***************************************************************************)
UpdateThen ==
    /\ pc = "Update_then"
    /\ response' = [response EXCEPT !.Name = event.ResourceProperties.Name]
    /\ result' = Resolved
    /\ pc' = "done"
    /\ UNCHANGED <<event, latestVersion, calls, replies, err>>

\* mutant: the list of line 73 without 'InvalidDocument'
SelfHealCodesOnlyResourceId == {"InvalidResourceId"}

\* ['InvalidResourceId', 'InvalidDocument']
SelfHealCodes == {"InvalidResourceId", "InvalidDocument"}

\* mutant: the catch without its reject(err)
UpdateCatchNoReject ==
    /\ pc = "Update_catch"
    /\ err \in SelfHealCodes
    /\ pc' = "Create"
    /\ UNCHANGED <<event, latestVersion, calls, replies, err, response, result>>

UpdateCatch ==
    /\ pc = "Update_catch"
    /\ IF err \in SelfHealCodes
       THEN \* return resolve(Create(event)): the outcome is Create's
            /\ pc' = "Create"
            /\ UNCHANGED result
       ELSE /\ result' = Rejected(err)
            /\ pc' = "done"
    /\ UNCHANGED <<event, latestVersion, calls, replies, err, response>>

(***************************************************************************)
(* The invocation is over: the response goes back to the platform and the  *)
(* process waits for its next event.  Module-scoped state stays.           *)
(***************************************************************************)
Return ==
    /\ pc = "done"
    /\ pc' = "idle"
    /\ event' = NoEvent
    /\ calls' = << >>
    /\ replies' = << >>
    /\ err' = Undefined
    /\ response' = [Name |-> Undefined]
    /\ result' = Pending
    /\ UNCHANGED latestVersion

Next ==
    \/ Invoke
    \/ Create
    \/ \E answer \in Answers("createDocument") : CreateCallback(answer)
    \/ Delete
    \/ \E answer \in Answers("deleteDocument") : DeleteCallback(answer)
    \/ updateDocument
    \/ \E answer \in Answers("updateDocument") : updateDocumentCallback(answer)
    \/ updateDocumentAddTags
    \/ \E answer \in Answers("addTagsToResource") :
          StepCallback("updateDocumentAddTags", answer)
    \/ updateDocumentRemoveTags
    \/ \E answer \in Answers("removeTagsFromResource") :
          StepCallback("updateDocumentRemoveTags", answer)
    \/ updateDocumentDefaultVersion
    \/ \E answer \in Answers("updateDocumentDefaultVersion") :
          StepCallback("updateDocumentDefaultVersion", answer)
    \/ UpdateThen
    \/ UpdateCatch
    \/ Return

Spec == Init /\ [][Next]_vars

(***************************************************************************)
(* The same process on Update events that vary the tags: longer Tags       *)
(* mappings over one more key, and a StackName that may differ between     *)
(* the previous and the desired state.                                     *)
(***************************************************************************)
\* at most this many user tags in the Tags mapping of such an event
MaxTagList == 2

WideTagEntries == TagEntries \cup { [Key |-> "z", Value |-> "1"] }

RECURSIVE WideTagMapsOfLen(_)
WideTagMapsOfLen(n) ==
    IF n = 0 THEN {<< >>}
    ELSE { Append(m, e) : m \in WideTagMapsOfLen(n - 1), e \in WideTagEntries }

WideTagsOptions ==
    {[has |-> FALSE, map |-> << >>]}
    \cup { [has |-> TRUE, map |-> m] :
             m \in UNION { { mm \in WideTagMapsOfLen(n) : UniqueKeys(mm) } :
                           n \in 0..MaxTagList } }

TagEvents ==
    { [RequestType |-> "Update", StackId |-> sid, LogicalResourceId |-> lid,
       ResourceProperties |->
           WithTags([Name |-> n, Content |-> c, DocumentType |-> d,
                     StackName |-> "stack1", UpdateDefaultVersion |-> "true"],
                    tg),
       OldResourceProperties |->
           WithTags([Name |-> n, Content |-> PlainContent, DocumentType |-> d,
                     StackName |-> os, UpdateDefaultVersion |-> "false"],
                    otg)] :
        sid \in StackIds, lid \in LogicalIds, n \in Names, d \in DocumentTypes,
        c \in Contents, os \in {"stack0", "stack1"},
        tg \in WideTagsOptions, otg \in WideTagsOptions }

InvokeTags ==
    /\ pc = "idle"
    /\ \E ev \in TagEvents : handler(ev)

NextTags ==
    \/ InvokeTags
    \/ Create
    \/ \E answer \in Answers("createDocument") : CreateCallback(answer)
    \/ updateDocument
    \/ \E answer \in Answers("updateDocument") : updateDocumentCallback(answer)
    \/ updateDocumentAddTags
    \/ \E answer \in Answers("addTagsToResource") :
          StepCallback("updateDocumentAddTags", answer)
    \/ updateDocumentRemoveTags
    \/ \E answer \in Answers("removeTagsFromResource") :
          StepCallback("updateDocumentRemoveTags", answer)
    \/ updateDocumentDefaultVersion
    \/ \E answer \in Answers("updateDocumentDefaultVersion") :
          StepCallback("updateDocumentDefaultVersion", answer)
    \/ UpdateThen
    \/ UpdateCatch
    \/ Return

SpecTags == Init /\ [][NextTags]_vars

(***************************************************************************)
(* getMissingTags on its own: applied to any two tag lists.                *)
(***************************************************************************)
\* at most this many tags in a list given to getMissingTags
MaxTagListLen == 3

DiffTagEntries ==
    { [Key |-> "A", Value |-> "1"], [Key |-> "A", Value |-> "2"],
      [Key |-> "B", Value |-> "1"], [Key |-> "C", Value |-> "1"],
      [Key |-> "D", Value |-> "1"] }

RECURSIVE DiffTagListsOfLen(_)
DiffTagListsOfLen(n) ==
    IF n = 0 THEN {<< >>}
    ELSE { Append(m, e) : m \in DiffTagListsOfLen(n - 1), e \in DiffTagEntries }

DiffTagLists == UNION { DiffTagListsOfLen(n) : n \in 0..MaxTagListLen }

InitDiff ==
    /\ event \in [RequestType : {"getMissingTags"},
                  oldTags : DiffTagLists, newTags : DiffTagLists]
    /\ pc = "getMissingTags"
    /\ latestVersion = Undefined
    /\ calls = << >>
    /\ replies = << >>
    /\ err = Undefined
    /\ response = [missing |-> << >>]
    /\ result = Pending

CallGetMissingTags ==
    /\ pc = "getMissingTags"
    /\ response' = [missing |-> getMissingTags(event.oldTags, event.newTags)]
    /\ pc' = "returned"
    /\ UNCHANGED <<event, latestVersion, calls, replies, err, result>>

NextDiff == CallGetMissingTags

SpecDiff == InitDiff /\ [][NextDiff]_vars

(***************************************************************************)
(* Progress.  Once an invocation has started, the event loop runs every    *)
(* pending continuation of its promise chain, and every remote call that   *)
(* was issued is answered: the steps of a running invocation are weakly    *)
(* fair.  Nothing obliges the platform to deliver a next event.            *)
(***************************************************************************)
\* the steps of a running invocation
Proceed ==
    \/ Create
    \/ \E answer \in Answers("createDocument") : CreateCallback(answer)
    \/ Delete
    \/ \E answer \in Answers("deleteDocument") : DeleteCallback(answer)
    \/ updateDocument
    \/ \E answer \in Answers("updateDocument") : updateDocumentCallback(answer)
    \/ updateDocumentAddTags
    \/ \E answer \in Answers("addTagsToResource") :
          StepCallback("updateDocumentAddTags", answer)
    \/ updateDocumentRemoveTags
    \/ \E answer \in Answers("removeTagsFromResource") :
          StepCallback("updateDocumentRemoveTags", answer)
    \/ updateDocumentDefaultVersion
    \/ \E answer \in Answers("updateDocumentDefaultVersion") :
          StepCallback("updateDocumentDefaultVersion", answer)
    \/ UpdateThen
    \/ UpdateCatch

\* the property set gives no target type, under either key
TargetTypeUnset(properties) ==
    /\ "TargetType" \notin DOMAIN properties
    /\ "targetType" \notin DOMAIN properties

\* the events of the progress check: no target type, at most the tag x = 1
LiveEvents ==
    { ev \in Events :
        \A properties \in
             {ev.ResourceProperties}
             \cup (IF ev.RequestType = "Update"
                   THEN {ev.OldResourceProperties} ELSE {}) :
           /\ TargetTypeUnset(properties)
           /\ "Tags" \in DOMAIN properties
                => properties.Tags = << [Key |-> "x", Value |-> "1"] >>
           /\ properties.UpdateDefaultVersion \in {"true", "false"} }

InvokeLive ==
    /\ pc = "idle"
    /\ \E ev \in LiveEvents : handler(ev)

NextLive ==
    \/ InvokeLive
    \/ Proceed
    \/ Return

SpecLive == Init /\ [][NextLive]_vars /\ WF_vars(Proceed)

(***************************************************************************)
(* Vocabulary of the properties.                                           *)
(***************************************************************************)
IsCreate == event.RequestType = "Create"
IsUpdate == event.RequestType = "Update"
IsDelete == event.RequestType = "Delete"

PipelineOps ==
    {"updateDocument", "addTagsToResource", "removeTagsFromResource",
     "updateDocumentDefaultVersion"}

\* the indices of the calls of one remote operation
CallsOf(op) == { i \in 1..Len(calls) : calls[i].op = op }

\* call i has been answered with an error
FailedCall(i) == i \in 1..Len(replies) /\ replies[i].code # "ok"

DesiredName == event.ResourceProperties.Name

\* the target type of a property set as Create sends it
EffectiveTargetType(properties) ==
    IF "TargetType" \in DOMAIN properties /\ properties.TargetType # ""
    THEN properties.TargetType ELSE "/"

\* step 1 received a new version identifier in this invocation
NewVersionProduced ==
    \E i \in CallsOf("updateDocument") :
        i \in 1..Len(replies) /\ replies[i].code = "ok"

\* C1: in an Update, a pipeline step failing with InvalidResourceId or
\* InvalidDocument is not propagated: exactly one Create call is issued with
\* the desired state, and if it succeeds the invocation succeeds with a
\* result carrying the desired name (a failure can only be Create's own).
C1_SelfHeal ==
    (/\ pc = "done"
     /\ IsUpdate
     /\ \E i \in 1..Len(replies) :
           /\ calls[i].op \in PipelineOps
           /\ replies[i].code \in {"InvalidResourceId", "InvalidDocument"})
    => /\ Cardinality(CallsOf("createDocument")) = 1
       /\ \A j \in CallsOf("createDocument") :
            /\ j = Len(calls)
            /\ calls[j].Name = DesiredName
            /\ calls[j].Content = JSONStringify(event.ResourceProperties.Content)
            /\ calls[j].DocumentType = event.ResourceProperties.DocumentType
            /\ calls[j].TargetType = EffectiveTargetType(event.ResourceProperties)
            /\ replies[j].code = "ok"
                 => result.status = "resolved" /\ response.Name = DesiredName
            /\ replies[j].code # "ok" => result = Rejected(replies[j].code)

C1_Witness ==
    /\ pc = "done"
    /\ IsUpdate
    /\ Len(calls) = 3
    /\ calls[2].op = "addTagsToResource"
    /\ replies[2].code = "InvalidDocument"
    /\ calls[3].op = "createDocument"
    /\ result.status = "resolved"

\* C2: step 4 issues no promote-default-version call when step 1 of the same
\* invocation produced no new version identifier, whatever earlier
\* invocations of the process did.
C2_NoPromoteWithoutNewVersion ==
    IsUpdate /\ CallsOf("updateDocumentDefaultVersion") # {}
        => NewVersionProduced

\* C3: step 1 got a new version v and no later step failed: with
\* updateDefaultVersion "true" in any letter case exactly one promote call
\* is issued, naming v; with any other flag none is.
C3_PromoteNewVersion ==
    (/\ pc = "done"
     /\ IsUpdate
     /\ NewVersionProduced
     /\ \A i \in 1..Len(replies) : replies[i].code = "ok")
    => LET promotes == CallsOf("updateDocumentDefaultVersion") IN
       IF event.ResourceProperties.UpdateDefaultVersion \in {"true", "TRUE"}
       THEN /\ Cardinality(promotes) = 1
            /\ \A i \in promotes :
                 /\ calls[i].DocumentVersion = replies[1].LatestVersion
                 /\ calls[i].Name = DesiredName
       ELSE promotes = {}

C3_Witness ==
    /\ pc = "done"
    /\ IsUpdate
    /\ latestVersion = "2"
    /\ event.ResourceProperties.UpdateDefaultVersion = "TRUE"
    /\ Len(calls) = 2
    /\ calls[1].op = "updateDocument"
    /\ replies[1] = [code |-> "ok", LatestVersion |-> "2"]
    /\ calls[2].op = "updateDocumentDefaultVersion"
    /\ replies[2].code = "ok"

\* C4: when the serialized content is unchanged but the target type Create
\* sends (property TargetType, "/" when unset) differs between the desired
\* and the previous state, step 1 issues a content update carrying the
\* desired target type; it is a no-op only when both are unchanged.
C4_TargetTypeChangeUpdates ==
    (/\ IsUpdate
     /\ pc # "updateDocument")
    => LET new == event.ResourceProperties
           old == event.OldResourceProperties
           unchanged ==
               /\ JSONStringify(new.Content) = JSONStringify(old.Content)
               /\ EffectiveTargetType(new) = EffectiveTargetType(old)
       IN  /\ (/\ JSONStringify(new.Content) = JSONStringify(old.Content)
               /\ EffectiveTargetType(new) # EffectiveTargetType(old))
              => \E i \in CallsOf("updateDocument") :
                    calls[i].TargetType = EffectiveTargetType(new)
           /\ CallsOf("updateDocument") = {} => unchanged

\* a step of the pipeline failed with an error that nothing handles
UnhandledFailure(i) ==
    /\ FailedCall(i)
    /\ calls[i].op \in PipelineOps
    /\ replies[i].code \notin {"InvalidResourceId", "InvalidDocument"}
    /\ ~(calls[i].op = "updateDocument"
         /\ replies[i].code = "DuplicateDocumentContent")

\* C5: in an Update, a step failing with a code other than InvalidResourceId
\* and InvalidDocument (and, in step 1, other than DuplicateDocumentContent)
\* fails the invocation with that error: it is the last remote call of the
\* invocation (no later step, no Create, no compensating call).
C5_UnhandledErrorPropagates ==
    IsUpdate =>
      \A i \in 1..Len(replies) :
        UnhandledFailure(i)
          => /\ i = Len(calls)
             /\ pc \in {"Update_catch", "done"}
             /\ pc = "done" => result = Rejected(replies[i].code)

C5_Witness ==
    /\ pc = "done"
    /\ IsUpdate
    /\ Len(calls) = 3
    /\ calls[1].op = "updateDocument" /\ replies[1].code = "ok"
    /\ calls[2].op = "addTagsToResource" /\ replies[2].code = "ok"
    /\ calls[3].op = "removeTagsFromResource"
    /\ replies[3].code = "AccessDeniedException"
    /\ result = Rejected("AccessDeniedException")

\* the place of a remote operation in the pipeline
Rank(op) ==
    CASE op = "updateDocument" -> 1
      [] op = "addTagsToResource" -> 2
      [] op = "removeTagsFromResource" -> 3
      [] op = "updateDocumentDefaultVersion" -> 4
      [] OTHER -> 5

\* C6: the remote calls of one Update are issued in the order content
\* update, add tags, remove tags, promote default version, each after the
\* answer to the one before: at most one call is outstanding.
C6_SequentialPipeline ==
    IsUpdate =>
      /\ Outstanding \in {0, 1}
      /\ \A i, j \in 1..Len(calls) :
           i < j => Rank(calls[i].op) < Rank(calls[j].op)

C6_Witness ==
    /\ IsUpdate
    /\ Len(calls) = 4
    /\ Len(replies) = 3
    /\ calls[2].op = "addTagsToResource"
    /\ calls[3].op = "removeTagsFromResource"
    /\ calls[4].op = "updateDocumentDefaultVersion"

\* step 1's content update was answered DuplicateDocumentContent
DuplicateContent ==
    /\ IsUpdate
    /\ Len(replies) >= 1
    /\ calls[1].op = "updateDocument"
    /\ replies[1].code = "DuplicateDocumentContent"

\* C7: a content update answered DuplicateDocumentContent does not abort the
\* pipeline: the tag steps run as after a successful step 1 and the
\* invocation does not fail because of that error.
C7_DuplicateContentContinues ==
    DuplicateContent =>
      /\ Len(calls) = 1 => pc # "Update_catch" /\ err = Undefined
      /\ pc # "updateDocumentAddTags"
           => (CallsOf("addTagsToResource") # {} <=> ~TagsUnchanged(event))
      /\ CallsOf("addTagsToResource") \subseteq {2}
      /\ pc \in {"updateDocumentDefaultVersion",
                 "updateDocumentDefaultVersion_cb", "Update_then"}
           => (CallsOf("removeTagsFromResource") # {} <=> ~NothingToRemove(event))
      /\ CallsOf("removeTagsFromResource") # {} => ~NothingToRemove(event)
      /\ (pc = "done" /\ \A j \in 2..Len(replies) : replies[j].code = "ok")
           => /\ result = Resolved
              /\ response.Name = DesiredName
      /\ (pc = "done" /\ result.status = "rejected")
           => \E j \in 2..Len(replies) : replies[j].code = result.error

C7_Witness ==
    /\ DuplicateContent
    /\ pc = "done"
    /\ Len(calls) = 3
    /\ calls[2].op = "addTagsToResource"
    /\ calls[3].op = "removeTagsFromResource"
    /\ result = Resolved

FullTagSet ==
    << [Key |-> "aws-cloudformation:stack-id", Value |-> event.StackId],
       [Key |-> "aws-cloudformation:stack-name",
        Value |-> event.ResourceProperties.StackName],
       [Key |-> "aws-cloudformation:logical-id",
        Value |-> event.LogicalResourceId] >>
    \o (IF "Tags" \in DOMAIN event.ResourceProperties
        THEN event.ResourceProperties.Tags ELSE << >>)

\* C9: a Create invocation issues exactly one create call, carrying the
\* desired name, the serialized content, the document type, the effective
\* target type and the full tag set; on success the result carries the
\* name, on a rejection the invocation fails with that error, no retry.
C9_CreateOnce ==
    IsCreate =>
      /\ pc = "Create" => calls = << >>
      /\ pc \in {"Create_cb", "done"} =>
           calls = << [op |-> "createDocument",
                       Name |-> DesiredName,
                       Content |-> JSONStringify(event.ResourceProperties.Content),
                       DocumentType |-> event.ResourceProperties.DocumentType,
                       TargetType |-> EffectiveTargetType(event.ResourceProperties),
                       Tags |-> FullTagSet] >>
      /\ pc = "done" =>
           /\ Len(replies) = 1
           /\ replies[1].code = "ok"
                => result = Resolved /\ response.Name = DesiredName
           /\ replies[1].code # "ok" => result = Rejected(replies[1].code)

C9_Witness ==
    /\ IsCreate
    /\ pc = "done"
    /\ "TargetType" \notin DOMAIN event.ResourceProperties
    /\ "Tags" \in DOMAIN event.ResourceProperties
    /\ Len(event.ResourceProperties.Tags) = 1
    /\ calls[1].TargetType = "/"
    /\ Len(calls[1].Tags) = 4
    /\ result = Resolved
    /\ response.Name = "doc1"

\* C10: a Delete invocation issues exactly one delete call naming the
\* desired name and no other remote call; any remote error, a not-found
\* class error included, fails the invocation with that error.
C10_DeletePropagates ==
    IsDelete =>
      /\ pc = "Delete" => calls = << >>
      /\ pc \in {"Delete_cb", "done"} =>
           calls = << [op |-> "deleteDocument", Name |-> DesiredName] >>
      /\ pc = "done" =>
           /\ Len(replies) = 1
           /\ replies[1].code = "ok" => result = Resolved
           /\ replies[1].code # "ok" => result = Rejected(replies[1].code)

C10_Witness ==
    /\ IsDelete
    /\ pc = "done"
    /\ Len(calls) = 1
    /\ replies[1].code = "InvalidDocument"
    /\ result = Rejected("InvalidDocument")

\* the target type the step-1 comparison reads for a property set that is
\* unset or gives it under the key the comparison reads
ComparedTargetType(properties) ==
    IF "targetType" \in DOMAIN properties THEN properties.targetType ELSE "/"

\* C11: a desired or previous state whose target type is unset has the
\* effective target type "/": in the create and update calls sent, and in
\* the step-1 comparison (against a state that is unset too or gives its
\* target type under the key the comparison reads).
C11_DefaultTargetType ==
    /\ (event # NoEvent /\ TargetTypeUnset(event.ResourceProperties))
         => \A i \in CallsOf("createDocument") \cup CallsOf("updateDocument") :
               calls[i].TargetType = "/"
    /\ (/\ IsUpdate
        /\ pc # "updateDocument"
        /\ \/ TargetTypeUnset(event.ResourceProperties)
           \/ TargetTypeUnset(event.OldResourceProperties)
        /\ "TargetType" \notin DOMAIN event.ResourceProperties
        /\ "TargetType" \notin DOMAIN event.OldResourceProperties
        /\ JSONStringify(event.ResourceProperties.Content)
             = JSONStringify(event.OldResourceProperties.Content))
         => (CallsOf("updateDocument") = {}
               <=> ComparedTargetType(event.ResourceProperties)
                     = ComparedTargetType(event.OldResourceProperties))

C11_Witness ==
    /\ IsUpdate
    /\ pc = "done"
    /\ TargetTypeUnset(event.ResourceProperties)
    /\ "targetType" \in DOMAIN event.OldResourceProperties
    /\ event.OldResourceProperties.targetType = "/AWS::EC2::Instance"
    /\ event.ResourceProperties.Content = event.OldResourceProperties.Content
    /\ Len(calls) = 2
    /\ calls[1].op = "updateDocument" /\ calls[1].TargetType = "/"
    /\ replies[1].code = "InvalidDocument"
    /\ calls[2].op = "createDocument" /\ calls[2].TargetType = "/"

\* the tag list of the previous state
OldFullTagSet ==
    << [Key |-> "aws-cloudformation:stack-id", Value |-> event.StackId],
       [Key |-> "aws-cloudformation:stack-name",
        Value |-> event.OldResourceProperties.StackName],
       [Key |-> "aws-cloudformation:logical-id",
        Value |-> event.LogicalResourceId] >>
    \o (IF "Tags" \in DOMAIN event.OldResourceProperties
        THEN event.OldResourceProperties.Tags ELSE << >>)

EntriesOf(tags) == { tags[i] : i \in 1..Len(tags) }

\* call i was answered with an error that aborts the pipeline
AbortingFailure(i) ==
    /\ FailedCall(i)
    /\ ~(calls[i].op = "updateDocument"
         /\ replies[i].code = "DuplicateDocumentContent")

\* step 2 of the running Update has been evaluated
Step2Evaluated ==
    /\ IsUpdate
    /\ pc \notin {"updateDocument", "updateDocument_cb", "updateDocumentAddTags"}
    /\ \A i \in CallsOf("updateDocument") : ~AbortingFailure(i)

\* step 3 of the running Update has been evaluated
Step3Evaluated ==
    /\ Step2Evaluated
    /\ pc \notin {"updateDocumentAddTags_cb", "updateDocumentRemoveTags"}
    /\ \A i \in CallsOf("addTagsToResource") : ~AbortingFailure(i)

\* C12: step 2 issues no add-tags call when the old and the new full tag
\* set hold the same key/value entries, in whatever order the user tag keys
\* are listed; otherwise exactly one, carrying the full new tag set.
C12_AddTagsOrderIndependent ==
    Step2Evaluated =>
      IF EntriesOf(OldFullTagSet) = EntriesOf(FullTagSet)
      THEN CallsOf("addTagsToResource") = {}
      ELSE /\ Cardinality(CallsOf("addTagsToResource")) = 1
           /\ \A i \in CallsOf("addTagsToResource") :
                /\ calls[i].Tags = FullTagSet
                /\ calls[i].ResourceId = DesiredName

\* the keys of the old tag set that the new tag set lacks
MissingKeySet == KeysOf(OldFullTagSet) \ KeysOf(FullTagSet)

\* C13: step 3 issues a remove-tags call if and only if some key of the old
\* tag set is absent from the new one, and the call lists exactly those
\* keys; with no key missing it issues none.
C13_RemoveExactlyMissing ==
    /\ IsUpdate =>
         /\ Cardinality(CallsOf("removeTagsFromResource")) <= 1
         /\ \A i \in CallsOf("removeTagsFromResource") :
              /\ MissingKeySet # {}
              /\ { calls[i].TagKeys[k] : k \in 1..Len(calls[i].TagKeys) }
                   = MissingKeySet
              /\ Len(calls[i].TagKeys) = Cardinality(MissingKeySet)
              /\ calls[i].ResourceId = DesiredName
    /\ Step3Evaluated =>
         (CallsOf("removeTagsFromResource") # {} <=> MissingKeySet # {})

C13_Witness ==
    /\ IsUpdate
    /\ pc = "done"
    /\ result = Resolved
    /\ "Tags" \in DOMAIN event.OldResourceProperties
    /\ "Tags" \in DOMAIN event.ResourceProperties
    /\ KeysOf(event.OldResourceProperties.Tags) = {"x", "y"}
    /\ event.ResourceProperties.Tags = << [Key |-> "z", Value |-> "1"] >>
    /\ \E i \in CallsOf("removeTagsFromResource") :
          calls[i].TagKeys = << "y", "x" >>

\* a second witness of C13: only a value changed, nothing is removed
C13_ValueChangeOnly ==
    /\ IsUpdate
    /\ pc = "done"
    /\ result = Resolved
    /\ event.OldResourceProperties.StackName = "stack1"
    /\ "Tags" \in DOMAIN event.OldResourceProperties
    /\ "Tags" \in DOMAIN event.ResourceProperties
    /\ event.OldResourceProperties.Tags = << [Key |-> "x", Value |-> "1"] >>
    /\ event.ResourceProperties.Tags = << [Key |-> "x", Value |-> "2"] >>
    /\ CallsOf("addTagsToResource") # {}
    /\ CallsOf("removeTagsFromResource") = {}

SystemTagKeys ==
    {"aws-cloudformation:stack-id", "aws-cloudformation:stack-name",
     "aws-cloudformation:logical-id"}

\* C17: the key list of a remove-tags call never holds a system tag key,
\* whatever the old and the new user tag mappings are.
C17_SystemTagsNeverRemoved ==
    \A i \in CallsOf("removeTagsFromResource") :
       \A k \in 1..Len(calls[i].TagKeys) :
          calls[i].TagKeys[k] \notin SystemTagKeys

C17_Witness ==
    /\ IsUpdate
    /\ event.OldResourceProperties.StackName = "stack0"
    /\ \E i \in CallsOf("removeTagsFromResource") :
          /\ i \in 1..Len(replies)
          /\ Len(calls[i].TagKeys) = 2

\* the keys of old whose key no tag of new has, in old's order
RECURSIVE ExpectedMissing(_, _)
ExpectedMissing(old, new) ==
    IF old = << >> THEN << >>
    ELSE IF \E j \in 1..Len(new) : new[j].Key = Head(old).Key
         THEN ExpectedMissing(Tail(old), new)
         ELSE << Head(old).Key >> \o ExpectedMissing(Tail(old), new)

\* C14: getMissingTags(oldTags, newTags) returns exactly the keys of oldTags
\* that are no key of newTags, in oldTags' order, comparing keys only.
C14_MissingKeys ==
    pc = "returned"
      => response.missing = ExpectedMissing(event.oldTags, event.newTags)

\* old {A,B,C}, new {B,D} gives [A, C]
C14_Witness ==
    /\ pc = "returned"
    /\ event.oldTags = << [Key |-> "A", Value |-> "1"], [Key |-> "B", Value |-> "1"],
                          [Key |-> "C", Value |-> "1"] >>
    /\ event.newTags = << [Key |-> "B", Value |-> "1"], [Key |-> "D", Value |-> "1"] >>
    /\ response.missing = << "A", "C" >>

\* a changed value alone: old {A: 1}, new {A: 2} gives []
C14_ValueChangeOnly ==
    /\ pc = "returned"
    /\ event.oldTags = << [Key |-> "A", Value |-> "1"] >>
    /\ event.newTags = << [Key |-> "A", Value |-> "2"] >>
    /\ response.missing = << >>

RemoteOps ==
    PipelineOps \cup {"createDocument", "deleteDocument"}

\* C15: no remote operation is retried: in one invocation each kind of
\* remote operation is called at most once, whatever the service answers.
C15_NoRetry ==
    \A op \in RemoteOps : Cardinality(CallsOf(op)) <= 1

C15_Witness ==
    /\ IsUpdate
    /\ pc = "done"
    /\ Len(calls) = 5
    /\ \A op \in PipelineOps \cup {"createDocument"} : Cardinality(CallsOf(op)) = 1
    /\ replies[4].code = "InvalidResourceId"
    /\ replies[5].code = "AccessDeniedException"

\* a tag list made of the three system tags and then the user tags of the
\* property set
SystemThenUserTags(tags, properties) ==
    LET user == IF "Tags" \in DOMAIN properties THEN properties.Tags ELSE << >>
    IN  /\ Len(tags) = 3 + Len(user)
        /\ tags[1].Key = "aws-cloudformation:stack-id"
        /\ tags[2].Key = "aws-cloudformation:stack-name"
        /\ tags[3].Key = "aws-cloudformation:logical-id"
        /\ \A k \in 1..Len(user) : tags[3 + k] = user[k]

\* C16: every tag list makeTags computes, and so the tag list of every
\* create and add-tags call, holds the three system tags as its first three
\* entries, then one entry per user tag; with the Tags mapping absent or
\* empty it is exactly the three system tags.
C16_SystemTagsFirst ==
    event # NoEvent =>
      /\ SystemThenUserTags(makeTags(event, event.ResourceProperties),
                            event.ResourceProperties)
      /\ IsUpdate => SystemThenUserTags(makeTags(event, event.OldResourceProperties),
                                        event.OldResourceProperties)
      /\ \A i \in CallsOf("createDocument") \cup CallsOf("addTagsToResource") :
           SystemThenUserTags(calls[i].Tags, event.ResourceProperties)

C16_Witness ==
    /\ IsUpdate
    /\ pc = "done"
    /\ "Tags" \notin DOMAIN event.ResourceProperties
    /\ "Tags" \in DOMAIN event.OldResourceProperties
    /\ event.OldResourceProperties.Tags # << >>
    /\ \E i \in CallsOf("addTagsToResource") : Len(calls[i].Tags) = 3
    /\ result = Resolved

\* C18: when the Create call of the self-heal fallback fails, the Update
\* fails with Create's error: no second self-heal, and no call after the
\* Create.
C18_SelfHealCreateFails ==
    (IsUpdate /\ CallsOf("createDocument") # {})
    => /\ CallsOf("createDocument") = {Len(calls)}
       /\ pc \in {"Create_cb", "done"}
       /\ (pc = "done" /\ replies[Len(calls)].code # "ok")
            => result = Rejected(replies[Len(calls)].code)

C18_Witness ==
    /\ IsUpdate
    /\ pc = "done"
    /\ Len(calls) = 2
    /\ calls[1].op = "updateDocument"
    /\ replies[1].code = "InvalidResourceId"
    /\ calls[2].op = "createDocument"
    /\ replies[2].code = "InvalidDocument"
    /\ result = Rejected("InvalidDocument")

\* the invocation's promise is no longer pending
Settled == result.status \in {"resolved", "rejected"}

\* C19: with every issued remote call answered, every Create, Update and
\* Delete invocation finishes, with exactly one outcome: it is pending
\* while the invocation runs, resolved or rejected when it is over, and
\* once settled it does not change.
C19_InvocationSettles ==
    /\ (pc # "idle") ~> (pc = "done" /\ Settled)
    /\ [](pc \notin {"idle", "done"} => result = Pending)
    /\ [][Settled => (result' = result \/ pc' = "idle")]_vars

\* an update whose content is a duplicate and whose document is gone when
\* its tags are pushed: re-created, and resolved
C19_Witness ==
    /\ IsUpdate
    /\ pc = "done"
    /\ Len(calls) = 3
    /\ calls[1].op = "updateDocument"
    /\ replies[1].code = "DuplicateDocumentContent"
    /\ calls[2].op = "addTagsToResource"
    /\ replies[2].code = "InvalidResourceId"
    /\ calls[3].op = "createDocument"
    /\ replies[3].code = "ok"
    /\ result = Resolved
====
